---------------------------- MODULE Spec2Model ----------------------------
(***************************************************************************)
(* A model of the activityLogPrivate API glue                              *)
(* (chrome/browser/extensions/api/activity_log_private/                    *)
(* activity_log_private_api.cc): the ActivityLogAPI keyed service with its *)
(* observer bridge, and the extension functions GetExtensionActivities,    *)
(* DeleteActivities, DeleteUrls and DeleteDatabase; and of the join in     *)
(* NaClDomHandler (chrome/browser/ui/webui/nacl_ui.cc) and of the testing  *)
(* entry points of ui/base/ime/input_method_initializer.cc.  The           *)
(* EventRouter, the ActivityLog, GURL and the generated API types are      *)
(* collaborators whose code is elsewhere; what the model needs of them is  *)
(* stated where it is used.                                                *)
(***************************************************************************)
EXTENDS Integers, Sequences, FiniteSets, TLC

VARIABLES
  \* ---- ActivityLogAPI (one instance, one profile) ----
  browser_context_,        \* the profile the service was built for
  has_event_router,        \* host: ExtensionSystem::event_router() != NULL
  initialized_,            \* ActivityLogAPI::initialized_
  event_router_observers,  \* EventRouter: registrations <<observer, event name>>
  activity_log_observers,  \* ActivityLog: its observer list
  shutdown_calls,          \* number of Shutdown() calls made so far
  teardown_calls,          \* UnregisterObserver / RemoveObserver calls, in order
  reported,                \* Actions passed to OnExtensionActivity, in call order
  store_reports,           \* how many of those calls the ActivityLog made
  broadcasts,              \* EventRouter::BroadcastEvent calls, in call order
  \* ---- ActivityLogPrivateGetExtensionActivitiesFunction instances ----
  fn_state,                \* per instance: "idle", "ran", "bad_message"
  args_,                   \* per instance: the arguments it was dispatched with
  store_queries,           \* ActivityLog::GetFilteredActions calls, in call order
  store_callbacks,         \* instances whose continuation the ActivityLog holds
  completions,             \* per instance: the Action vectors the store delivered
  responses,               \* SendResponse calls, in call order
  fn_refs,                 \* per instance: its reference count
  dispatcher_refs,         \* instances the function dispatcher still references
  late_completions,        \* instances completed after the dispatcher let go
  \* ---- ActivityLogPrivateDeleteActivitiesFunction (one instance) ----
  del_state,               \* "idle", "ran", "bad_message"
  del_args,                \* the arguments it was dispatched with
  remove_actions_calls,    \* ActivityLog::RemoveActions calls, in call order
  \* ---- ActivityLogPrivateDeleteUrlsFunction (one instance) ----
  urls_state,              \* "idle", "ran", "bad_message"
  urls_args,               \* the arguments it was dispatched with
  remove_urls_calls,       \* ActivityLog::RemoveURLs calls, in call order
  \* ---- ActivityLogPrivateDeleteDatabaseFunction and the ActivityLog ----
  db_requests,             \* deleteDatabase requests dispatched so far
  delete_database_calls,   \* ActivityLog::DeleteDatabase calls made so far
  store_db,                \* the Actions the ActivityLog's database holds
  \* ---- NaClDomHandler (chrome/browser/ui/webui/nacl_ui.cc) ----
  page_has_requested_data_,
  has_plugin_info_,
  pnacl_path_validated_,
  pnacl_path_exists_,
  pnacl_path_validation,   \* the posted validation pnacl_path_exists_ came from
  nacl_requests,           \* requestNaClInfo messages handled so far
  plugin_callback_pending, \* PluginService still owes the OnGotPlugins call
  pending_validations,     \* posted ValidatePnaclPath tasks whose reply is due,
                           \* each tagged with the requests received when posted
  nacl_replies,            \* nacl.returnNaClInfo calls, in call order
  dcheck_failed,           \* DCHECK(pnacl_path_validated_) has failed
  \* ---- ui/base/ime/input_method_initializer.cc (Aura Linux build) ----
  g_linux_input_method_context_factory,  \* the module's pointer
  factory_instance,        \* LinuxInputMethodContextFactory::instance()
  fake_factories,          \* FakeInputMethodContextFactory objects alive
  factories_created,       \* FakeInputMethodContextFactory objects ever made
  ime_calls,               \* the ...ForTesting calls made, in order
  check_failed,            \* a CHECK has failed
  \* ---- the process ----
  faulted                  \* the browser process has crashed

apiVars == <<browser_context_, has_event_router, initialized_,
             event_router_observers, activity_log_observers, shutdown_calls,
             teardown_calls, reported, store_reports, broadcasts>>

queryVars == <<fn_state, args_, store_queries, store_callbacks, completions,
               responses, fn_refs, dispatcher_refs, late_completions>>

deleteVars == <<del_state, del_args, remove_actions_calls>>

urlVars == <<urls_state, urls_args, remove_urls_calls>>

dbVars == <<db_requests, delete_database_calls, store_db>>

naclVars == <<page_has_requested_data_, has_plugin_info_, pnacl_path_validated_,
              pnacl_path_exists_, pnacl_path_validation, nacl_requests,
              plugin_callback_pending,
              pending_validations, nacl_replies, dcheck_failed>>

imeVars == <<g_linux_input_method_context_factory, factory_instance,
             fake_factories, factories_created, ime_calls, check_failed>>

vars == <<apiVars, queryVars, deleteVars, urlVars, dbVars, naclVars, imeVars,
          faulted>>

-----------------------------------------------------------------------------
(* Bounds of the model. *)

MaxEvents == 3      \* OnExtensionActivity calls in a behaviour
MaxShutdowns == 2   \* Shutdown calls in a behaviour
MaxCalls == 2       \* concurrent GetExtensionActivities instances
MaxLen == 2         \* length of an Action vector the store delivers
MaxIds == 3         \* length of a deleteActivities id list
MaxUrls == 3        \* length of a deleteUrls url list
MaxDbRequests == 3  \* deleteDatabase requests in a behaviour
MaxRequests == 3    \* requestNaClInfo messages in a behaviour
MaxImeCalls == 5    \* Initialize/ShutdownInputMethodForTesting calls in a behaviour

-----------------------------------------------------------------------------
(* Values. *)

Profiles == {"profile_a", "profile_b"}

Self == "ActivityLogAPI"

\* activity_log_private::OnExtensionActivity::kEventName (generated header).
kEventName == "onExtensionActivity"

\* Action::ActionType
ActionTypes == {"ACTION_API_CALL", "ACTION_API_EVENT", "ACTION_CONTENT_SCRIPT",
                "ACTION_DOM_ACCESS", "ACTION_DOM_EVENT", "ACTION_WEB_REQUEST",
                "ACTION_ANY"}

\* Sample Actions the ActivityLog holds.
Actions == {[action_id |-> 10, action_type |-> "ACTION_API_CALL"],
            [action_id |-> 20, action_type |-> "ACTION_DOM_EVENT"]}

\* Action::ConvertToExtensionActivity followed by ExtensionActivity::ToValue:
\* the wire projection of an Action.
ActivityTypeName(t) ==
  CASE t = "ACTION_API_CALL" -> "api_call"
    [] t = "ACTION_API_EVENT" -> "api_event"
    [] t = "ACTION_CONTENT_SCRIPT" -> "content_script"
    [] t = "ACTION_DOM_ACCESS" -> "dom_access"
    [] t = "ACTION_DOM_EVENT" -> "dom_event"
    [] t = "ACTION_WEB_REQUEST" -> "web_request"
    [] OTHER -> "any"

ConvertToExtensionActivity(a) ==
  [activityId |-> a.action_id, activityType |-> ActivityTypeName(a.action_type)]

\* An Action the converter cannot turn into an ExtensionActivity: for it
\* ConvertToExtensionActivity returns an empty scoped_ptr.
IllFormedAction == [action_id |-> 30, action_type |-> "ILL_FORMED"]

AllActions == Actions \cup {IllFormedAction}

ConversionFails(a) == a.action_type \notin ActionTypes

RECURSIVE SeqsUpTo(_, _)
SeqsUpTo(S, n) ==
  IF n = 0 THEN {<<>>}
  ELSE LET shorter == SeqsUpTo(S, n - 1)
       IN shorter \cup {Append(s, x) : s \in {t \in shorter : Len(t) = n - 1}, x \in S}

-----------------------------------------------------------------------------
(* ActivityLogAPI: construction, Shutdown, the observer bridge. *)

\* ActivityLogAPI::ActivityLogAPI: the fields and registrations construction leaves.
\* Faulty variant, for comparison: construction that forgets activity_log_->AddObserver(this).
ConstructorNoAddObserver(context, router) ==
  [initialized |-> router,
   router_obs |-> IF router THEN {<<Self, kEventName>>} ELSE {},
   log_obs |-> {}]

ActivityLogAPI_ctor(context, router) ==
  IF ~router
  THEN [initialized |-> FALSE, router_obs |-> {}, log_obs |-> {}]
  ELSE [initialized |-> TRUE,
        router_obs |-> {<<Self, kEventName>>},
        log_obs |-> {Self}]

\* ActivityLogAPI::Shutdown
\* Faulty variant, for comparison: Shutdown that forgets activity_log_->RemoveObserver(this).
ShutdownKeepsLogObserver ==
  /\ ~faulted
  /\ shutdown_calls < MaxShutdowns
  /\ shutdown_calls' = shutdown_calls + 1
  /\ IF ~initialized_
     THEN UNCHANGED <<event_router_observers, activity_log_observers,
                      teardown_calls>>
     ELSE /\ event_router_observers' =
               {r \in event_router_observers : r[1] # Self}
          /\ UNCHANGED activity_log_observers
          /\ teardown_calls' = Append(teardown_calls, "UnregisterObserver")
  /\ UNCHANGED <<browser_context_, has_event_router, initialized_, reported,
                 store_reports, broadcasts, faulted>>
  /\ UNCHANGED <<queryVars, deleteVars, urlVars, dbVars, naclVars, imeVars>>

\* Faulty variant, for comparison: Shutdown that forgets
\* event_router()->UnregisterObserver(this).
ShutdownKeepsRouterObserver ==
  /\ ~faulted
  /\ shutdown_calls < MaxShutdowns
  /\ shutdown_calls' = shutdown_calls + 1
  /\ IF ~initialized_
     THEN UNCHANGED <<event_router_observers, activity_log_observers,
                      teardown_calls>>
     ELSE /\ UNCHANGED event_router_observers
          /\ activity_log_observers' = activity_log_observers \ {Self}
          /\ teardown_calls' = Append(teardown_calls, "RemoveObserver")
  /\ UNCHANGED <<browser_context_, has_event_router, initialized_, reported,
                 store_reports, broadcasts, faulted>>
  /\ UNCHANGED <<queryVars, deleteVars, urlVars, dbVars, naclVars, imeVars>>

\* Faulty variant, for comparison: Shutdown that returns at once when it has
\* been called before.
ShutdownOnceOnly ==
  /\ ~faulted
  /\ shutdown_calls < MaxShutdowns
  /\ shutdown_calls' = shutdown_calls + 1
  /\ IF ~initialized_ \/ shutdown_calls >= 1
     THEN UNCHANGED <<event_router_observers, activity_log_observers,
                      teardown_calls>>
     ELSE /\ event_router_observers' =
               {r \in event_router_observers : r[1] # Self}
          /\ activity_log_observers' = activity_log_observers \ {Self}
          /\ teardown_calls' = teardown_calls \o
                                 <<"UnregisterObserver", "RemoveObserver">>
  /\ UNCHANGED <<browser_context_, has_event_router, initialized_, reported,
                 store_reports, broadcasts, faulted>>
  /\ UNCHANGED <<queryVars, deleteVars, urlVars, dbVars, naclVars, imeVars>>

Shutdown ==
  /\ ~faulted
  /\ shutdown_calls < MaxShutdowns
  /\ shutdown_calls' = shutdown_calls + 1
  /\ IF ~initialized_
     THEN UNCHANGED <<event_router_observers, activity_log_observers,
                      teardown_calls>>
     ELSE /\ event_router_observers' =
               {r \in event_router_observers : r[1] # Self}
          /\ activity_log_observers' = activity_log_observers \ {Self}
          /\ teardown_calls' = teardown_calls \o
                                 <<"UnregisterObserver", "RemoveObserver">>
  /\ UNCHANGED <<browser_context_, has_event_router, initialized_, reported,
                 store_reports, broadcasts, faulted>>
  /\ UNCHANGED <<queryVars, deleteVars, urlVars, dbVars, naclVars, imeVars>>

\* The Event OnExtensionActivity builds for an Action.
\* Faulty variant, for comparison: an Event left without restrict_to_browser_context.
EventUnrestricted(activity) ==
  [event_name |-> kEventName,
   event_args |-> <<ConvertToExtensionActivity(activity)>>,
   restrict_to_browser_context |-> "NULL"]

EventFor(activity) ==
  [event_name |-> kEventName,
   event_args |-> <<ConvertToExtensionActivity(activity)>>,
   restrict_to_browser_context |-> browser_context_]

\* What calling a method through the NULL event_router() can do.
NullDerefOutcomes == {"fault", "nothing"}

\* activity_arg->ToValue() with activity_arg empty is a call through NULL: the
\* process faults, or the call reads whatever is there and the bridge goes on
\* to broadcast an event built from it.
NullActivityOutcomes == {"fault", "garbage_event"}

GarbageEvent ==
  [event_name |-> kEventName,
   event_args |-> <<[activityId |-> -1, activityType |-> "garbage"]>>,
   restrict_to_browser_context |-> browser_context_]

OnExtensionActivityUnconverted ==
  \E o \in NullActivityOutcomes :
    IF o = "fault"
    THEN /\ faulted' = TRUE
         /\ UNCHANGED broadcasts
    ELSE IF has_event_router
    THEN /\ broadcasts' = Append(broadcasts, GarbageEvent)
         /\ UNCHANGED faulted
    ELSE /\ \E o2 \in NullDerefOutcomes : faulted' = (o2 = "fault")
         /\ UNCHANGED broadcasts

\* ActivityLogAPI::OnExtensionActivity
\* Faulty variant, for comparison: a bridge that skips an event equal to the last one broadcast.
OnExtensionActivityDedup(activity) ==
  /\ reported' = Append(reported, activity)
  /\ IF ConversionFails(activity)
     THEN OnExtensionActivityUnconverted
     ELSE IF has_event_router
     THEN /\ broadcasts' =
               IF broadcasts # <<>> /\
                  broadcasts[Len(broadcasts)] = EventFor(activity)
               THEN broadcasts
               ELSE Append(broadcasts, EventFor(activity))
          /\ UNCHANGED faulted
     ELSE /\ \E o \in NullDerefOutcomes : faulted' = (o = "fault")
          /\ UNCHANGED broadcasts

OnExtensionActivity(activity) ==
  /\ reported' = Append(reported, activity)
  /\ IF ConversionFails(activity)
     THEN OnExtensionActivityUnconverted
     ELSE IF has_event_router
     THEN /\ broadcasts' = Append(broadcasts, EventFor(activity))
          /\ UNCHANGED faulted
     ELSE /\ \E o \in NullDerefOutcomes : faulted' = (o = "fault")
          /\ UNCHANGED broadcasts

\* The ActivityLog notifies its observers of a new Action.
ActivityLogNotifies(activity) ==
  /\ ~faulted
  /\ Len(reported) < MaxEvents
  /\ Self \in activity_log_observers
  /\ OnExtensionActivity(activity)
  /\ store_reports' = store_reports + 1
  /\ UNCHANGED <<browser_context_, has_event_router, initialized_,
                 event_router_observers, activity_log_observers, shutdown_calls,
                 teardown_calls>>
  /\ UNCHANGED <<queryVars, deleteVars, urlVars, dbVars, naclVars, imeVars>>

\* Some other caller invokes the public observer method.
DirectOnExtensionActivity(activity) ==
  /\ ~faulted
  /\ Len(reported) < MaxEvents
  /\ OnExtensionActivity(activity)
  /\ UNCHANGED <<browser_context_, has_event_router, initialized_,
                 event_router_observers, activity_log_observers, shutdown_calls,
                 teardown_calls, store_reports>>
  /\ UNCHANGED <<queryVars, deleteVars, urlVars, dbVars, naclVars, imeVars>>

-----------------------------------------------------------------------------
(* ActivityLogPrivateGetExtensionActivitiesFunction. *)

Calls == 1 .. MaxCalls

\* Filter::ActivityType as the generated header declares it; ACTIVITY_TYPE_NONE
\* and an out-of-range value are not named by any case label of RunImpl.
NamedFilterTypes == {"ACTIVITY_TYPE_API_CALL", "ACTIVITY_TYPE_API_EVENT",
                     "ACTIVITY_TYPE_CONTENT_SCRIPT", "ACTIVITY_TYPE_DOM_ACCESS",
                     "ACTIVITY_TYPE_DOM_EVENT", "ACTIVITY_TYPE_WEB_REQUEST"}

FilterTypes == NamedFilterTypes \cup
               {"ACTIVITY_TYPE_ANY", "ACTIVITY_TYPE_NONE", "OUT_OF_RANGE"}

\* A scoped_ptr<T> filter field is <<>> when NULL and <<v>> when it holds v.
OptStrings == {<<>>, <<"">>, <<"abc">>}
OptDays == {<<>>, <<0>>, <<3>>, <<-1>>}

Filters == [activity_type : FilterTypes,
            extension_id : OptStrings,
            api_call : OptStrings,
            page_url : OptStrings,
            arg_url : OptStrings,
            days_ago : OptDays]

\* What Params::Create(*args_) returns: <<>> for NULL (the arguments do not
\* match the schema), <<filter>> for a Params object holding the filter.
NoParams == <<>>

AllParams == {NoParams} \cup {<<f>> : f \in Filters}

\* The filters of two everyday requests, and arguments that do not parse.
SampleParams == {<<[activity_type |-> "ACTIVITY_TYPE_API_CALL",
                   extension_id |-> <<"abc">>, api_call |-> <<>>,
                   page_url |-> <<>>, arg_url |-> <<>>, days_ago |-> <<>>]>>,
                 <<[activity_type |-> "ACTIVITY_TYPE_ANY",
                   extension_id |-> <<>>, api_call |-> <<>>,
                   page_url |-> <<>>, arg_url |-> <<>>, days_ago |-> <<3>>]>>,
                 NoParams}

SampleResults == {<<>>,
                  <<[action_id |-> 10, action_type |-> "ACTION_API_CALL"],
                    [action_id |-> 20, action_type |-> "ACTION_DOM_EVENT"]>>}

\* The switch of RunImpl on filter->activity_type.
\* Faulty variant, for comparison: a switch whose DOM_EVENT case yields ACTION_DOM_ACCESS.
ActionTypeForMergedDom(activity_type) ==
  CASE activity_type = "ACTIVITY_TYPE_API_CALL" -> "ACTION_API_CALL"
    [] activity_type = "ACTIVITY_TYPE_API_EVENT" -> "ACTION_API_EVENT"
    [] activity_type = "ACTIVITY_TYPE_CONTENT_SCRIPT" -> "ACTION_CONTENT_SCRIPT"
    [] activity_type = "ACTIVITY_TYPE_DOM_ACCESS" -> "ACTION_DOM_ACCESS"
    [] activity_type = "ACTIVITY_TYPE_DOM_EVENT" -> "ACTION_DOM_ACCESS"
    [] activity_type = "ACTIVITY_TYPE_WEB_REQUEST" -> "ACTION_WEB_REQUEST"
    [] OTHER -> "ACTION_ANY"

ActionTypeFor(activity_type) ==
  CASE activity_type = "ACTIVITY_TYPE_API_CALL" -> "ACTION_API_CALL"
    [] activity_type = "ACTIVITY_TYPE_API_EVENT" -> "ACTION_API_EVENT"
    [] activity_type = "ACTIVITY_TYPE_CONTENT_SCRIPT" -> "ACTION_CONTENT_SCRIPT"
    [] activity_type = "ACTIVITY_TYPE_DOM_ACCESS" -> "ACTION_DOM_ACCESS"
    [] activity_type = "ACTIVITY_TYPE_DOM_EVENT" -> "ACTION_DOM_EVENT"
    [] activity_type = "ACTIVITY_TYPE_WEB_REQUEST" -> "ACTION_WEB_REQUEST"
    [] activity_type = "ACTIVITY_TYPE_ANY" -> "ACTION_ANY"
    [] OTHER -> "ACTION_ANY"

\* field.get() ? *field : std::string()
StringOrEmpty(field) == IF field # <<>> THEN field[1] ELSE ""

\* int days_ago = -1; if (filter->days_ago.get()) days_ago = *filter->days_ago;
\* Faulty variant, for comparison: days_ago read with a test on the value instead of on the pointer.
DaysAgoZeroAsAbsent(field) == IF field # <<>> /\ field[1] # 0 THEN field[1] ELSE -1

DaysAgoOf(field) == IF field # <<>> THEN field[1] ELSE -1

\* The six arguments RunImpl hands to ActivityLog::GetFilteredActions.
QueryFor(filter) ==
  [extension_id |-> StringOrEmpty(filter.extension_id),
   action_type |-> ActionTypeFor(filter.activity_type),
   api_call |-> StringOrEmpty(filter.api_call),
   page_url |-> StringOrEmpty(filter.page_url),
   arg_url |-> StringOrEmpty(filter.arg_url),
   days_ago |-> DaysAgoOf(filter.days_ago)]

\* RunImpl leaves through the destructor of scoped_ptr<Filter> filter, which
\* deletes the address of a member of the released Params object: the delete
\* either frees the Params block or corrupts the heap.
FilterReleaseOutcomes == {"freed", "fault"}

\* base::Bind(&...::OnLookupCompleted, this): binding the ref-counted
\* function object itself makes the callback hold a reference to it.
\* Faulty variant, for comparison: a binding through a weak pointer.
BindWeak(c) == fn_refs

BindThis(c) == [fn_refs EXCEPT ![c] = @ + 1]

\* ActivityLogPrivateGetExtensionActivitiesFunction::RunImpl
\* Faulty variant, for comparison: a RunImpl that also calls SendResponse itself.
GetExtensionActivitiesRespondsEarly(c, params) ==
  /\ ~faulted
  /\ fn_state[c] = "idle"
  /\ args_' = [args_ EXCEPT ![c] = params]
  /\ IF params = NoParams
     THEN /\ fn_state' = [fn_state EXCEPT ![c] = "bad_message"]
          /\ UNCHANGED <<store_queries, store_callbacks, faulted, responses,
                          fn_refs>>
     ELSE /\ fn_state' = [fn_state EXCEPT ![c] = "ran"]
          /\ store_queries' = Append(store_queries, [fn |-> c, query |-> QueryFor(params[1])])
          /\ store_callbacks' = store_callbacks \cup {c}
          /\ fn_refs' = BindThis(c)
          /\ responses' = Append(responses,
                                 [fn |-> c, success |-> TRUE, activities |-> <<>>])
          /\ \E o \in FilterReleaseOutcomes : faulted' = (o = "fault")
  /\ UNCHANGED <<completions, dispatcher_refs, late_completions>>
  /\ UNCHANGED <<apiVars, deleteVars, urlVars, dbVars, naclVars, imeVars>>

GetExtensionActivitiesRunImpl(c, params) ==
  /\ ~faulted
  /\ fn_state[c] = "idle"
  /\ args_' = [args_ EXCEPT ![c] = params]
  /\ IF params = NoParams
     THEN /\ fn_state' = [fn_state EXCEPT ![c] = "bad_message"]
          /\ UNCHANGED <<store_queries, store_callbacks, faulted, fn_refs>>
     ELSE /\ fn_state' = [fn_state EXCEPT ![c] = "ran"]
          /\ store_queries' = Append(store_queries, [fn |-> c, query |-> QueryFor(params[1])])
          /\ store_callbacks' = store_callbacks \cup {c}
          /\ fn_refs' = BindThis(c)
          /\ \E o \in FilterReleaseOutcomes : faulted' = (o = "fault")
  /\ UNCHANGED <<completions, responses, dispatcher_refs, late_completions>>
  /\ UNCHANGED <<apiVars, deleteVars, urlVars, dbVars, naclVars, imeVars>>

\* The loop of OnLookupCompleted: result_arr.push_back(convert(*it)) in order.
\* Faulty variant, for comparison: a loop that stops one element early.
RECURSIVE ConvertAllDropsLast(_)
ConvertAllDropsLast(activities) ==
  IF Len(activities) <= 1 THEN <<>>
  ELSE <<ConvertToExtensionActivity(Head(activities))>> \o
       ConvertAllDropsLast(Tail(activities))

RECURSIVE ConvertAll(_)
ConvertAll(activities) ==
  IF activities = <<>> THEN <<>>
  ELSE <<ConvertToExtensionActivity(Head(activities))>> \o
       ConvertAll(Tail(activities))

\* ActivityLogPrivateGetExtensionActivitiesFunction::OnLookupCompleted
\* Faulty variant, for comparison: a result_arr shared by all instances, never
\* cleared, so a response also carries what earlier completions delivered.
OnLookupCompletedSharedResult(c, activities) ==
  responses' = Append(responses,
                      [fn |-> c, success |-> TRUE,
                       activities |->
                         (IF responses = <<>> THEN <<>>
                          ELSE responses[Len(responses)].activities) \o
                         ConvertAll(activities)])

OnLookupCompleted(c, activities) ==
  responses' = Append(responses,
                      [fn |-> c, success |-> TRUE,
                       activities |-> ConvertAll(activities)])

\* The ActivityLog finishes a query and runs the continuation it was given,
\* once, then drops it (and with it the reference the continuation holds).
StoreCompletes(c, activities) ==
  /\ ~faulted
  /\ c \in store_callbacks
  /\ store_callbacks' = store_callbacks \ {c}
  /\ completions' = [completions EXCEPT ![c] = Append(@, activities)]
  /\ OnLookupCompleted(c, activities)
  /\ fn_refs' = [fn_refs EXCEPT ![c] = @ - 1]
  /\ late_completions' = IF c \in dispatcher_refs THEN late_completions
                         ELSE late_completions \cup {c}
  /\ UNCHANGED <<fn_state, args_, store_queries, faulted, dispatcher_refs>>
  /\ UNCHANGED <<apiVars, deleteVars, urlVars, dbVars, naclVars, imeVars>>

\* The function dispatcher drops its reference to an instance once RunImpl has
\* returned; the instance is destroyed when its last reference goes.
DispatcherReleases(c) ==
  /\ ~faulted
  /\ fn_state[c] # "idle"
  /\ c \in dispatcher_refs
  /\ dispatcher_refs' = dispatcher_refs \ {c}
  /\ fn_refs' = [fn_refs EXCEPT ![c] = @ - 1]
  /\ UNCHANGED <<fn_state, args_, store_queries, store_callbacks, completions,
                 responses, late_completions, faulted>>
  /\ UNCHANGED <<apiVars, deleteVars, urlVars, dbVars, naclVars, imeVars>>

-----------------------------------------------------------------------------
(* ActivityLogPrivateDeleteActivitiesFunction. *)

\* A std::string is the sequence of its characters.
DigitValue == ("0" :> 0) @@ ("1" :> 1) @@ ("2" :> 2) @@ ("3" :> 3) @@ ("4" :> 4) @@
              ("5" :> 5) @@ ("6" :> 6) @@ ("7" :> 7) @@ ("8" :> 8) @@ ("9" :> 9)

DigitChars == DOMAIN DigitValue

\* An int64 is kept as its sign and its decimal digits without leading zeros.
\* The magnitudes of kint64max and of kint64min:
Int64MaxDigits == <<"9","2","2","3","3","7","2","0","3","6","8","5","4","7","7","5","8","0","7">>
Int64MinDigits == <<"9","2","2","3","3","7","2","0","3","6","8","5","4","7","7","5","8","0","8">>

RECURSIVE StripZeros(_)
StripZeros(digits) ==
  IF Len(digits) > 1 /\ Head(digits) = "0" THEN StripZeros(Tail(digits)) ELSE digits

RECURSIVE DigitsLeq(_, _)
DigitsLeq(a, b) ==
  IF a = <<>> THEN TRUE
  ELSE IF DigitValue[Head(a)] < DigitValue[Head(b)] THEN TRUE
  ELSE IF DigitValue[Head(a)] > DigitValue[Head(b)] THEN FALSE
  ELSE DigitsLeq(Tail(a), Tail(b))

MagnitudeFits(m, limit) ==
  \/ Len(m) < Len(limit)
  \/ Len(m) = Len(limit) /\ DigitsLeq(m, limit)

\* base::StringToInt64(input, &value): <<>> when it returns false, <<value>> when
\* it returns true.  An optional sign, then one or more decimal digits and
\* nothing else (leading whitespace makes it return false), within int64 range.
StringToInt64(input) ==
  LET negative == input # <<>> /\ Head(input) = "-"
      signed == input # <<>> /\ Head(input) \in {"-", "+"}
      digits == IF signed THEN Tail(input) ELSE input
      m == StripZeros(digits)
  IN IF digits = <<>> \/ \E i \in 1 .. Len(digits) : digits[i] \notin DigitChars
     THEN <<>>
     ELSE IF ~MagnitudeFits(m, IF negative THEN Int64MinDigits ELSE Int64MaxDigits)
     THEN <<>>
     ELSE <<[negative |-> negative /\ m # <<"0">>, magnitude |-> m]>>

\* The strings a deleteActivities request may carry in this model.
IdStrings == {<<"1","0">>,
              <<"2","0">>,
              <<"n","o","t","-","a","-","n","u","m","b","e","r">>,
              <<>>,
              <<"-","7">>,
              <<"+","5">>,
              <<"0","0","7">>,
              <<" ","3">>,
              <<"1","2","x">>,
              Int64MaxDigits,
              Int64MinDigits,
              <<"-">> \o Int64MinDigits}

\* What DeleteActivities::Params::Create returns: <<>> for NULL, <<ids>> for a
\* Params object holding activity_ids.
AllDeleteParams == {<<>>} \cup {<<ids>> : ids \in SeqsUpTo(IdStrings, MaxIds)}

\* The loop of RunImpl over params->activity_ids.
\* Faulty variant, for comparison: a loop that breaks at the first id that does not parse.
RECURSIVE ActionIdsStopAtBadId(_)
ActionIdsStopAtBadId(activity_ids) ==
  IF activity_ids = <<>> THEN <<>>
  ELSE IF StringToInt64(Head(activity_ids)) = <<>> THEN <<>>
  ELSE StringToInt64(Head(activity_ids)) \o ActionIdsStopAtBadId(Tail(activity_ids))

RECURSIVE ActionIdsOf(_)
ActionIdsOf(activity_ids) ==
  IF activity_ids = <<>> THEN <<>>
  ELSE StringToInt64(Head(activity_ids)) \o ActionIdsOf(Tail(activity_ids))

\* activity_log->RemoveActions(action_ids)
\* Faulty variant, for comparison: a call elided when action_ids is empty.
RemoveActionsUnlessEmpty(action_ids) ==
  IF action_ids = <<>> THEN remove_actions_calls
  ELSE Append(remove_actions_calls, action_ids)

RemoveActions(action_ids) == Append(remove_actions_calls, action_ids)

\* ActivityLogPrivateDeleteActivitiesFunction::RunImpl
DeleteActivitiesRunImpl(params) ==
  /\ ~faulted
  /\ del_state = "idle"
  /\ del_args' = params
  /\ IF params = <<>>
     THEN /\ del_state' = "bad_message"
          /\ UNCHANGED remove_actions_calls
     ELSE /\ del_state' = "ran"
          /\ remove_actions_calls' = RemoveActions(ActionIdsOf(params[1]))
  /\ UNCHANGED faulted
  /\ UNCHANGED <<apiVars, queryVars, urlVars, dbVars, naclVars, imeVars>>

-----------------------------------------------------------------------------
(* ActivityLogPrivateDeleteUrlsFunction. *)

\* The strings a client passes as urls.
UrlStrings == {"http://a.example/", "http://a.example", "HTTP://A.Example/x",
               "", "garbage"}

\* GURL(const std::string&): parses and canonicalises; a string that is not a
\* URL gives the invalid GURL, whose spec is empty.
InvalidGURL == [is_valid |-> FALSE, spec |-> ""]

GURL(url_string) ==
  CASE url_string = "http://a.example/"  -> [is_valid |-> TRUE, spec |-> "http://a.example/"]
    [] url_string = "http://a.example"   -> [is_valid |-> TRUE, spec |-> "http://a.example/"]
    [] url_string = "HTTP://A.Example/x" -> [is_valid |-> TRUE, spec |-> "http://a.example/x"]
    [] OTHER -> InvalidGURL

\* Arguments of deleteUrls: <<>> when Params::Create returns NULL, else the
\* params, whose urls member is a scoped_ptr: <<>> when it holds no vector.
AllUrlParams ==
  {<<>>, << <<>> >>} \cup {<< <<urls>> >> : urls \in SeqsUpTo(UrlStrings, MaxUrls)}

\* The loop of RunImpl over urls.
\* Faulty variant, for comparison: a loop that leaves out the strings that are not URLs.
RECURSIVE GurlsSkipInvalid(_)
GurlsSkipInvalid(urls) ==
  IF urls = <<>> THEN <<>>
  ELSE IF GURL(Head(urls)).is_valid
       THEN <<GURL(Head(urls))>> \o GurlsSkipInvalid(Tail(urls))
       ELSE GurlsSkipInvalid(Tail(urls))

RECURSIVE GurlsOf(_)
GurlsOf(urls) ==
  IF urls = <<>> THEN <<>>
  ELSE <<GURL(Head(urls))>> \o GurlsOf(Tail(urls))

\* *params->urls.get() when urls holds no vector dereferences NULL: the process
\* faults, or the copy reads as an empty vector.
UrlsDerefOutcomes == {"fault", "empty_vector"}

\* activity_log->RemoveURLs(gurls)
RemoveURLs(gurls) == Append(remove_urls_calls, gurls)

\* ActivityLogPrivateDeleteUrlsFunction::RunImpl
\* Faulty variant, for comparison: a RunImpl that, after failing validation,
\* goes on to call the ActivityLog with an empty list.
DeleteUrlsRunImplStillForwards(params) ==
  /\ ~faulted
  /\ urls_state = "idle"
  /\ urls_args' = params
  /\ IF params = <<>>
     THEN /\ urls_state' = "bad_message"
          /\ remove_urls_calls' = RemoveURLs(<<>>)
          /\ UNCHANGED faulted
     ELSE IF params[1] = <<>>
     THEN \E o \in UrlsDerefOutcomes :
            IF o = "fault"
            THEN /\ faulted' = TRUE
                 /\ urls_state' = "idle"
                 /\ UNCHANGED remove_urls_calls
            ELSE /\ urls_state' = "ran"
                 /\ remove_urls_calls' = RemoveURLs(GurlsOf(<<>>))
                 /\ UNCHANGED faulted
     ELSE /\ urls_state' = "ran"
          /\ remove_urls_calls' = RemoveURLs(GurlsOf(params[1][1]))
          /\ UNCHANGED faulted
  /\ UNCHANGED <<apiVars, queryVars, deleteVars, dbVars, naclVars, imeVars>>

DeleteUrlsRunImpl(params) ==
  /\ ~faulted
  /\ urls_state = "idle"
  /\ urls_args' = params
  /\ IF params = <<>>
     THEN /\ urls_state' = "bad_message"
          /\ UNCHANGED <<remove_urls_calls, faulted>>
     ELSE IF params[1] = <<>>
     THEN \E o \in UrlsDerefOutcomes :
            IF o = "fault"
            THEN /\ faulted' = TRUE
                 /\ urls_state' = "idle"
                 /\ UNCHANGED remove_urls_calls
            ELSE /\ urls_state' = "ran"
                 /\ remove_urls_calls' = RemoveURLs(GurlsOf(<<>>))
                 /\ UNCHANGED faulted
     ELSE /\ urls_state' = "ran"
          /\ remove_urls_calls' = RemoveURLs(GurlsOf(params[1][1]))
          /\ UNCHANGED faulted
  /\ UNCHANGED <<apiVars, queryVars, deleteVars, dbVars, naclVars, imeVars>>

-----------------------------------------------------------------------------
(* ActivityLogPrivateDeleteDatabaseFunction. *)

\* ActivityLog::DeleteDatabase: drops every stored Action; it notifies no
\* observer.
ActivityLogDeleteDatabase(db) == {}

\* The ActivityLog writes an Action to its database.
ActivityLogRecords(activity) ==
  /\ ~faulted
  /\ activity \notin store_db
  /\ store_db' = store_db \cup {activity}
  /\ UNCHANGED <<db_requests, delete_database_calls, faulted>>
  /\ UNCHANGED <<apiVars, queryVars, deleteVars, urlVars, naclVars, imeVars>>

\* ActivityLogPrivateDeleteDatabaseFunction::RunImpl
\* Faulty variant, for comparison: a RunImpl that forwards only while the
\* database is known to hold something.
DeleteDatabaseRunImplUnlessEmpty ==
  /\ ~faulted
  /\ db_requests < MaxDbRequests
  /\ db_requests' = db_requests + 1
  /\ IF store_db = {}
     THEN UNCHANGED <<delete_database_calls, store_db>>
     ELSE /\ delete_database_calls' = delete_database_calls + 1
          /\ store_db' = ActivityLogDeleteDatabase(store_db)
  /\ UNCHANGED faulted
  /\ UNCHANGED <<apiVars, queryVars, deleteVars, urlVars, naclVars, imeVars>>

DeleteDatabaseRunImpl ==
  /\ ~faulted
  /\ db_requests < MaxDbRequests
  /\ db_requests' = db_requests + 1
  /\ delete_database_calls' = delete_database_calls + 1
  /\ store_db' = ActivityLogDeleteDatabase(store_db)
  /\ UNCHANGED faulted
  /\ UNCHANGED <<apiVars, queryVars, deleteVars, urlVars, naclVars, imeVars>>

-----------------------------------------------------------------------------
(* NaClDomHandler (chrome/browser/ui/webui/nacl_ui.cc).  All of its methods run *)
(* on the UI thread, one at a time.                                          *)

\* What a nacl.returnNaClInfo call is built from, with the validation the
\* reported path state came from and the requests received when it is sent.
ReplyFor(exists, validation) ==
  [pnacl_path_exists |-> exists,
   validation |-> validation,
   requests |-> nacl_requests']

\* A sequence without its i-th element.
RemoveAt(s, i) == SubSeq(s, 1, i - 1) \o SubSeq(s, i + 1, Len(s))

\* NaClDomHandler::MaybeRespondToPage, run with the fields as the calling
\* handler has just set them and with the validation replies still due;
\* PopulatePageInformation's DCHECK is part of it.
\* Faulty variant, for comparison: no return after posting the validation task.
MaybeRespondToPageFallsThrough(requested, plugins, validated, exists, validation, due) ==
  IF ~requested \/ ~plugins
  THEN /\ pending_validations' = due
       /\ UNCHANGED <<nacl_replies, dcheck_failed>>
  ELSE /\ pending_validations' =
            IF validated THEN due ELSE Append(due, nacl_requests')
       /\ dcheck_failed' = (dcheck_failed \/ ~validated)
       /\ nacl_replies' = Append(nacl_replies, ReplyFor(exists, validation))

MaybeRespondToPage(requested, plugins, validated, exists, validation, due) ==
  IF ~requested \/ ~plugins
  THEN /\ pending_validations' = due
       /\ UNCHANGED <<nacl_replies, dcheck_failed>>
  ELSE IF ~validated
  THEN /\ pending_validations' = Append(due, nacl_requests')
       /\ UNCHANGED <<nacl_replies, dcheck_failed>>
  ELSE /\ pending_validations' = due
       /\ dcheck_failed' = (dcheck_failed \/ ~validated)
       /\ nacl_replies' = Append(nacl_replies, ReplyFor(exists, validation))

\* NaClDomHandler::HandleRequestNaClInfo
\* Faulty variant, for comparison: a handler that keeps an earlier validation
\* instead of forcing a new one.
HandleRequestNaClInfoKeepsValidation ==
  /\ nacl_requests < MaxRequests
  /\ nacl_requests' = nacl_requests + 1
  /\ page_has_requested_data_' = TRUE
  /\ UNCHANGED pnacl_path_validated_
  /\ MaybeRespondToPage(TRUE, has_plugin_info_, pnacl_path_validated_,
                        pnacl_path_exists_, pnacl_path_validation,
                        pending_validations)
  /\ UNCHANGED <<has_plugin_info_, pnacl_path_exists_, pnacl_path_validation,
                 plugin_callback_pending>>
  /\ UNCHANGED <<apiVars, queryVars, deleteVars, urlVars, dbVars, imeVars, faulted>>

HandleRequestNaClInfo ==
  /\ nacl_requests < MaxRequests
  /\ nacl_requests' = nacl_requests + 1
  /\ page_has_requested_data_' = TRUE
  /\ pnacl_path_validated_' = FALSE
  /\ MaybeRespondToPage(TRUE, has_plugin_info_, FALSE, pnacl_path_exists_,
                        pnacl_path_validation, pending_validations)
  /\ UNCHANGED <<has_plugin_info_, pnacl_path_exists_, pnacl_path_validation,
                 plugin_callback_pending>>
  /\ UNCHANGED <<apiVars, queryVars, deleteVars, urlVars, dbVars, imeVars, faulted>>

\* NaClDomHandler::OnGotPlugins, the callback the constructor gave to
\* PluginService::GetPlugins; it is run once.
\* Faulty variant, for comparison: a callback that records the plugin list and
\* does not go on to MaybeRespondToPage.
OnGotPluginsOnlyRecords ==
  /\ plugin_callback_pending
  /\ plugin_callback_pending' = FALSE
  /\ has_plugin_info_' = TRUE
  /\ UNCHANGED nacl_requests
  /\ UNCHANGED <<pending_validations, nacl_replies, dcheck_failed>>
  /\ UNCHANGED <<page_has_requested_data_, pnacl_path_validated_,
                 pnacl_path_exists_, pnacl_path_validation>>
  /\ UNCHANGED <<apiVars, queryVars, deleteVars, urlVars, dbVars, imeVars, faulted>>

OnGotPlugins ==
  /\ plugin_callback_pending
  /\ plugin_callback_pending' = FALSE
  /\ has_plugin_info_' = TRUE
  /\ UNCHANGED nacl_requests
  /\ MaybeRespondToPage(page_has_requested_data_, TRUE, pnacl_path_validated_,
                        pnacl_path_exists_, pnacl_path_validation,
                        pending_validations)
  /\ UNCHANGED <<page_has_requested_data_, pnacl_path_validated_,
                 pnacl_path_exists_, pnacl_path_validation>>
  /\ UNCHANGED <<apiVars, queryVars, deleteVars, urlVars, dbVars, imeVars, faulted>>

\* NaClDomHandler::DidValidatePnaclPath, the reply to the i-th posted
\* ValidatePnaclPath task still due, with the value the task computed.  Tasks
\* run on the blocking pool, so their replies come in any order.
DidValidatePnaclPath(i, is_valid) ==
  /\ i \in 1 .. Len(pending_validations)
  /\ pnacl_path_validated_' = TRUE
  /\ pnacl_path_exists_' = is_valid
  /\ pnacl_path_validation' = pending_validations[i]
  /\ UNCHANGED nacl_requests
  /\ MaybeRespondToPage(page_has_requested_data_, has_plugin_info_, TRUE,
                        is_valid, pending_validations[i],
                        RemoveAt(pending_validations, i))
  /\ UNCHANGED <<page_has_requested_data_, has_plugin_info_,
                 plugin_callback_pending>>
  /\ UNCHANGED <<apiVars, queryVars, deleteVars, urlVars, dbVars, imeVars, faulted>>

-----------------------------------------------------------------------------
(* ui/base/ime/input_method_initializer.cc, as built for Aura Linux          *)
(* (!OS_CHROMEOS, USE_AURA, OS_LINUX).  Objects are numbered in the order    *)
(* they are created; NULL is 0.                                              *)

NULL == 0

\* new FakeInputMethodContextFactory()
NewFakeFactory == factories_created + 1

\* The CHECK both functions make on LinuxInputMethodContextFactory::instance().
FactoryCheckPasses(factory, own) == factory = NULL \/ factory = own

\* ui::InitializeInputMethodForTesting
\* Faulty variant, for comparison: a function that makes a new fake factory on
\* every call.
InitializeInputMethodForTestingAlwaysNew ==
  /\ ~check_failed
  /\ Len(ime_calls) < MaxImeCalls
  /\ ime_calls' = Append(ime_calls, "Initialize")
  /\ LET own == NewFakeFactory
     IN /\ g_linux_input_method_context_factory' = own
        /\ fake_factories' = fake_factories \cup {own}
        /\ factories_created' = factories_created + 1
        /\ IF FactoryCheckPasses(factory_instance, own)
           THEN /\ factory_instance' = own
                /\ UNCHANGED check_failed
           ELSE /\ check_failed' = TRUE
                /\ UNCHANGED factory_instance
  /\ UNCHANGED <<apiVars, queryVars, deleteVars, urlVars, dbVars, naclVars,
                 faulted>>

InitializeInputMethodForTesting ==
  /\ ~check_failed
  /\ Len(ime_calls) < MaxImeCalls
  /\ ime_calls' = Append(ime_calls, "Initialize")
  /\ LET make == g_linux_input_method_context_factory = NULL
         own == IF make THEN NewFakeFactory
                ELSE g_linux_input_method_context_factory
     IN /\ g_linux_input_method_context_factory' = own
        /\ fake_factories' = IF make THEN fake_factories \cup {own}
                             ELSE fake_factories
        /\ factories_created' = IF make THEN factories_created + 1
                                ELSE factories_created
        /\ IF FactoryCheckPasses(factory_instance, own)
           THEN /\ factory_instance' = own
                /\ UNCHANGED check_failed
           ELSE /\ check_failed' = TRUE
                /\ UNCHANGED factory_instance
  /\ UNCHANGED <<apiVars, queryVars, deleteVars, urlVars, dbVars, naclVars,
                 faulted>>

\* ui::ShutdownInputMethodForTesting
ShutdownInputMethodForTesting ==
  /\ ~check_failed
  /\ Len(ime_calls) < MaxImeCalls
  /\ ime_calls' = Append(ime_calls, "Shutdown")
  /\ IF FactoryCheckPasses(factory_instance, g_linux_input_method_context_factory)
     THEN /\ factory_instance' = NULL
          /\ fake_factories' =
               fake_factories \ {g_linux_input_method_context_factory}
          /\ g_linux_input_method_context_factory' = NULL
          /\ UNCHANGED check_failed
     ELSE /\ check_failed' = TRUE
          /\ UNCHANGED <<factory_instance, fake_factories,
                         g_linux_input_method_context_factory>>
  /\ UNCHANGED factories_created
  /\ UNCHANGED <<apiVars, queryVars, deleteVars, urlVars, dbVars, naclVars,
                 faulted>>

-----------------------------------------------------------------------------
(* Specifications. *)

\* The state after the ActivityLogAPI has been constructed for a profile.
Init ==
  /\ browser_context_ \in Profiles
  /\ has_event_router \in BOOLEAN
  /\ initialized_ = ActivityLogAPI_ctor(browser_context_, has_event_router).initialized
  /\ event_router_observers =
       ActivityLogAPI_ctor(browser_context_, has_event_router).router_obs
  /\ activity_log_observers =
       ActivityLogAPI_ctor(browser_context_, has_event_router).log_obs
  /\ shutdown_calls = 0
  /\ teardown_calls = <<>>
  /\ reported = <<>>
  /\ store_reports = 0
  /\ broadcasts = <<>>
  /\ fn_state = [c \in Calls |-> "idle"]
  /\ args_ = [c \in Calls |-> NoParams]
  /\ store_queries = <<>>
  /\ store_callbacks = {}
  /\ completions = [c \in Calls |-> <<>>]
  /\ responses = <<>>
  /\ fn_refs = [c \in Calls |-> 1]
  /\ dispatcher_refs = Calls
  /\ late_completions = {}
  /\ del_state = "idle"
  /\ del_args = <<>>
  /\ remove_actions_calls = <<>>
  /\ urls_state = "idle"
  /\ urls_args = <<>>
  /\ remove_urls_calls = <<>>
  /\ db_requests = 0
  /\ delete_database_calls = 0
  /\ store_db = {}
  /\ page_has_requested_data_ = FALSE
  /\ has_plugin_info_ = FALSE
  /\ pnacl_path_validated_ = FALSE
  /\ pnacl_path_exists_ = FALSE
  /\ pnacl_path_validation = 0
  /\ nacl_requests = 0
  /\ plugin_callback_pending = TRUE
  /\ pending_validations = <<>>
  /\ nacl_replies = <<>>
  /\ dcheck_failed = FALSE
  /\ g_linux_input_method_context_factory = NULL
  /\ factory_instance = NULL
  /\ fake_factories = {}
  /\ factories_created = 0
  /\ ime_calls = <<>>
  /\ check_failed = FALSE
  /\ faulted = FALSE

\* The service and its observer bridge, with one GetExtensionActivities
\* instance that may run at any point of the service's life.  The bridge is
\* called by the ActivityLog only.
Next ==
  \/ Shutdown
  \/ \E a \in Actions : ActivityLogNotifies(a)
  \/ \E p \in SampleParams : GetExtensionActivitiesRunImpl(1, p)
  \/ \E r \in SampleResults : StoreCompletes(1, r)

Spec == Init /\ [][Next]_vars

\* The same, in a harness that also calls OnExtensionActivity itself.
NextHarness ==
  \/ Next
  \/ \E a \in Actions : DirectOnExtensionActivity(a)

SpecHarness == Init /\ [][NextHarness]_vars

\* Concurrent GetExtensionActivities instances, completed in any order, each
\* let go by the dispatcher at any point after its RunImpl.
NextCalls ==
  \/ \E c \in Calls, p \in SampleParams : GetExtensionActivitiesRunImpl(c, p)
  \/ \E c \in Calls, r \in SampleResults : StoreCompletes(c, r)
  \/ \E c \in Calls : DispatcherReleases(c)

SpecCalls == Init /\ [][NextCalls]_vars

\* One GetExtensionActivities instance, over every filter and every result.
NextQuery ==
  \/ /\ fn_state[1] = "idle"
     /\ \E p \in AllParams : GetExtensionActivitiesRunImpl(1, p)
  \/ /\ 1 \in store_callbacks
     /\ \E r \in SeqsUpTo(Actions, MaxLen) : StoreCompletes(1, r)

SpecQuery == Init /\ [][NextQuery]_vars

\* One DeleteActivities instance, over every id list.
NextDelete ==
  /\ del_state = "idle"
  /\ \E p \in AllDeleteParams : DeleteActivitiesRunImpl(p)

SpecDelete == Init /\ [][NextDelete]_vars

\* One DeleteUrls instance, over every url list.
NextUrls ==
  /\ urls_state = "idle"
  /\ \E p \in AllUrlParams : DeleteUrlsRunImpl(p)

SpecUrls == Init /\ [][NextUrls]_vars

\* deleteDatabase requests, between database writes and observer
\* notifications of the ActivityLog.
NextDatabase ==
  \/ DeleteDatabaseRunImpl
  \/ \E a \in Actions : ActivityLogRecords(a)
  \/ \E a \in Actions : ActivityLogNotifies(a)

SpecDatabase == Init /\ [][NextDatabase]_vars

\* The three endpoints that take arguments, each dispatched once with
\* arguments that do or do not match its schema, in any order.
SampleDeleteParams == {<<>>, << <<>> >>, << << <<"1","0">>, <<"a","b","c">> >> >>}

SampleUrlParams == {<<>>, << <<>> >>, << << <<"http://a.example/", "garbage">> >> >>}

NextEndpoints ==
  \/ \E p \in SampleParams : GetExtensionActivitiesRunImpl(1, p)
  \/ \E r \in SampleResults : StoreCompletes(1, r)
  \/ \E p \in SampleDeleteParams : DeleteActivitiesRunImpl(p)
  \/ \E p \in SampleUrlParams : DeleteUrlsRunImpl(p)

SpecEndpoints == Init /\ [][NextEndpoints]_vars

\* The observer bridge when the ActivityLog also reports an Action that cannot
\* be converted.
NextBridge ==
  \/ Shutdown
  \/ \E a \in AllActions : ActivityLogNotifies(a)

SpecBridge == Init /\ [][NextBridge]_vars

\* The about:nacl handler: page requests, the plugin list callback and the
\* replies of posted path validations, in any order.
NextNaCl ==
  \/ HandleRequestNaClInfo
  \/ OnGotPlugins
  \/ \E i \in 1 .. MaxRequests, is_valid \in BOOLEAN :
       DidValidatePnaclPath(i, is_valid)

SpecNaCl == Init /\ [][NextNaCl]_vars

\* The same, when the plugin list lookup does call back and posted validations
\* do reply (the handler is never destroyed in this model).
SpecNaClFair ==
  /\ Init
  /\ [][NextNaCl]_vars
  /\ WF_vars(OnGotPlugins)
  /\ WF_vars(\E i \in 1 .. MaxRequests, is_valid \in BOOLEAN :
               DidValidatePnaclPath(i, is_valid))

\* The testing entry points of the input method initializer, called in any
\* order by a process in which nothing else installs a factory.
NextInputMethod ==
  \/ InitializeInputMethodForTesting
  \/ ShutdownInputMethodForTesting

SpecInputMethod == Init /\ [][NextInputMethod]_vars

-----------------------------------------------------------------------------
(* Properties of the observer bridge and of the lifecycle (under Spec). *)

\* Constructed with an event router and not yet shut down.
Active == initialized_ /\ shutdown_calls = 0

RouterRegistrations == Cardinality({r \in event_router_observers : r[1] = Self})

LogRegistrations == Cardinality({o \in activity_log_observers : o = Self})

\* C1: while the component is Active, each OnExtensionActivity(A) call made by
\* the ActivityLog adds exactly one BroadcastEvent call, whose event is named
\* "onExtensionActivity", carries the projection of A as its only argument and
\* is restricted to the component's own browser context.
C1_StoreReportBroadcastsOnce ==
  [][(Active /\ store_reports' = store_reports + 1) =>
       /\ Len(broadcasts') = Len(broadcasts) + 1
       /\ SubSeq(broadcasts', 1, Len(broadcasts)) = broadcasts
       /\ LET event == broadcasts'[Len(broadcasts')]
              A == reported'[Len(reported')]
          IN /\ event.event_name = "onExtensionActivity"
             /\ Len(event.event_args) = 1
             /\ event.event_args[1] = ConvertToExtensionActivity(A)
             /\ event.restrict_to_browser_context = browser_context_
             /\ event.restrict_to_browser_context \in Profiles]_vars

C1_Witness ==
  /\ Active
  /\ store_reports = 1
  /\ Len(reported) = 1
  /\ Len(broadcasts) = 1

\* C2: the events broadcast are the projections of the Actions reported to a
\* component built with an event router, one per Action and in the same order:
\* nothing is reordered, merged, duplicated or dropped.
C2_BroadcastsFollowReports ==
  initialized_ =>
    /\ Len(broadcasts) = Len(reported)
    /\ \A i \in 1 .. Len(reported) :
         broadcasts[i].event_args = <<ConvertToExtensionActivity(reported[i])>>

C2_Witness ==
  /\ Active
  /\ store_reports = 3
  /\ Len(reported) = 3
  /\ reported[1] = reported[2]
  /\ reported[2] # reported[3]
  /\ Len(broadcasts) = 3

C4_InitializedMeansRegistered ==
  initialized_ => (RouterRegistrations = 1 /\ LogRegistrations = 1)

\* C4 as amended: whenever initialized_ is true, the component holds exactly one
\* registration on each of the EventRouter and the ActivityLog until Shutdown
\* is called, and none on either afterwards (initialized_ stays true).
C4_RegisteredUntilShutdown ==
  initialized_ =>
    IF shutdown_calls = 0
    THEN RouterRegistrations = 1 /\ LogRegistrations = 1
    ELSE RouterRegistrations = 0 /\ LogRegistrations = 0

C4_Witness ==
  /\ initialized_
  /\ shutdown_calls >= 2
  /\ store_reports > 0
  /\ RouterRegistrations = 0
  /\ LogRegistrations = 0

\* C14 as stated: in a component constructed without an event router
\* (initialized_ false), an OnExtensionActivity call adds no BroadcastEvent call
\* and does not fault, and no endpoint adds a call to the ActivityLog.
C14_InertIsSilent ==
  [][~initialized_ =>
       /\ (reported' # reported => broadcasts' = broadcasts /\ ~faulted')
       /\ store_queries' = store_queries]_vars

\* C15: the two registrations are made and removed together: in every state the
\* component is registered with the EventRouter exactly when it is registered
\* with the ActivityLog; constructed without an event router it is registered
\* with neither, and Shutdown then calls neither collaborator.
C15_RegistrationsTogether ==
  /\ RouterRegistrations = LogRegistrations
  /\ RouterRegistrations <= 1
  /\ ~has_event_router =>
       /\ RouterRegistrations = 0
       /\ LogRegistrations = 0
       /\ teardown_calls = <<>>

\* A component constructed without an event router on which Shutdown has been
\* called.
C15_Witness ==
  /\ ~has_event_router
  /\ shutdown_calls >= 1
  /\ teardown_calls = <<>>
  /\ activity_log_observers = {}
  /\ event_router_observers = {}

\* The other case of C15: both registrations made at construction and both
\* removed by one Shutdown.
C15_WitnessTornDown ==
  /\ has_event_router
  /\ shutdown_calls = 1
  /\ teardown_calls = <<"UnregisterObserver", "RemoveObserver">>
  /\ RouterRegistrations = 0
  /\ LogRegistrations = 0
  /\ store_reports > 0

\* C16 as stated: a Shutdown call on a component that has already been shut
\* down makes no UnregisterObserver and no RemoveObserver call.
C16_RepeatedShutdownCallsNothing ==
  [][(shutdown_calls >= 1 /\ shutdown_calls' = shutdown_calls + 1) =>
       teardown_calls' = teardown_calls]_vars

\* C16 as amended: a repeated Shutdown changes no registration (none are left
\* to remove) and leaves initialized_ as it was; it returns without calling the
\* collaborators only on a component constructed without an event router,
\* otherwise it calls UnregisterObserver and RemoveObserver again.
C16_RepeatedShutdownChangesNothing ==
  [][(shutdown_calls >= 1 /\ shutdown_calls' = shutdown_calls + 1) =>
       /\ event_router_observers' = event_router_observers
       /\ activity_log_observers' = activity_log_observers
       /\ Self \notin activity_log_observers'
       /\ \A r \in event_router_observers' : r[1] # Self
       /\ initialized_' = initialized_
       /\ IF initialized_
          THEN teardown_calls' =
                 teardown_calls \o <<"UnregisterObserver", "RemoveObserver">>
          ELSE teardown_calls' = teardown_calls]_vars

\* Shutdown called twice on a component that was constructed with an event
\* router: the collaborators were called both times.
C16_Witness ==
  /\ initialized_
  /\ shutdown_calls = 2
  /\ teardown_calls = <<"UnregisterObserver", "RemoveObserver",
                        "UnregisterObserver", "RemoveObserver">>
  /\ RouterRegistrations = 0
  /\ LogRegistrations = 0

\* C19 as stated (under SpecBridge): when the ActivityLog reports an Action
\* whose conversion fails, the bridge adds no BroadcastEvent call and does not
\* fault, so that later Actions can still be broadcast.
C19_FailedConversionIsSkipped ==
  [][(Len(reported') = Len(reported) + 1 /\
      ConversionFails(reported'[Len(reported')])) =>
       /\ broadcasts' = broadcasts
       /\ ~faulted']_vars

-----------------------------------------------------------------------------
(* Properties of GetExtensionActivities (under SpecQuery and SpecCalls). *)

\* The filter instance c was dispatched with (c has valid arguments).
FilterOf(c) == args_[c][1]

QueriesOf(c) == {i \in 1 .. Len(store_queries) : store_queries[i].fn = c}

ResponsesOf(c) == {i \in 1 .. Len(responses) : responses[i].fn = c}

\* C5: every GetFilteredActions call receives, for extension_id, api_call,
\* page_url and arg_url, the filter's value when the field is present and ""
\* when it is absent, and for days_ago the filter's value when present (0
\* included) and -1 when absent.
C5_AbsentFieldsBecomeSentinels ==
  \A i \in 1 .. Len(store_queries) :
    LET q == store_queries[i].query
        f == FilterOf(store_queries[i].fn)
    IN /\ q.extension_id = (IF Len(f.extension_id) = 0 THEN "" ELSE f.extension_id[1])
       /\ q.api_call = (IF Len(f.api_call) = 0 THEN "" ELSE f.api_call[1])
       /\ q.page_url = (IF Len(f.page_url) = 0 THEN "" ELSE f.page_url[1])
       /\ q.arg_url = (IF Len(f.arg_url) = 0 THEN "" ELSE f.arg_url[1])
       /\ Len(f.days_ago) = 0 => q.days_ago = -1
       /\ Len(f.days_ago) = 1 => q.days_ago = f.days_ago[1]

C5_Witness ==
  /\ Len(store_queries) = 1
  /\ FilterOf(1).days_ago = <<0>>
  /\ FilterOf(1).extension_id = <<"abc">>
  /\ FilterOf(1).api_call = <<>>
  /\ FilterOf(1).page_url = <<"">>
  /\ store_queries[1].query.days_ago = 0
  /\ store_queries[1].query.extension_id = "abc"
  /\ store_queries[1].query.api_call = ""

\* C6: the action type handed to the store is the one of the same name for
\* each of the six named activity types and ACTION_ANY for ACTIVITY_TYPE_ANY
\* and for every value outside the enum; distinct named types are kept apart.
C6_ActivityTypeTable ==
  /\ \A i \in 1 .. Len(store_queries) :
       LET t == FilterOf(store_queries[i].fn).activity_type
           expected ==
             ("ACTIVITY_TYPE_API_CALL" :> "ACTION_API_CALL") @@
             ("ACTIVITY_TYPE_API_EVENT" :> "ACTION_API_EVENT") @@
             ("ACTIVITY_TYPE_CONTENT_SCRIPT" :> "ACTION_CONTENT_SCRIPT") @@
             ("ACTIVITY_TYPE_DOM_ACCESS" :> "ACTION_DOM_ACCESS") @@
             ("ACTIVITY_TYPE_DOM_EVENT" :> "ACTION_DOM_EVENT") @@
             ("ACTIVITY_TYPE_WEB_REQUEST" :> "ACTION_WEB_REQUEST") @@
             ("ACTIVITY_TYPE_ANY" :> "ACTION_ANY") @@
             ("ACTIVITY_TYPE_NONE" :> "ACTION_ANY") @@
             ("OUT_OF_RANGE" :> "ACTION_ANY")
       IN store_queries[i].query.action_type = expected[t]
  /\ \A t1, t2 \in NamedFilterTypes :
       t1 # t2 => /\ ActionTypeFor(t1) # ActionTypeFor(t2)
                  /\ ActionTypeFor(t1) # "ACTION_ANY"

C6_Witness ==
  /\ Len(store_queries) = 1
  /\ FilterOf(1).activity_type = "OUT_OF_RANGE"
  /\ store_queries[1].query.action_type = "ACTION_ANY"

\* C7: when the store completes a query with n Actions, the instance sends one
\* response carrying n ExtensionActivities, the i-th being the projection of
\* the i-th Action (none for an empty vector).
C7_ResponseIsProjectionOfResult ==
  \A c \in Calls :
    /\ Cardinality(ResponsesOf(c)) = Len(completions[c])
    /\ \A i \in ResponsesOf(c) :
         LET delivered == completions[c][1]
             sent == responses[i].activities
         IN /\ Len(sent) = Len(delivered)
            /\ \A k \in 1 .. Len(delivered) :
                 sent[k] = ConvertToExtensionActivity(delivered[k])

C7_Witness ==
  /\ Len(completions[1]) = 1
  /\ Len(completions[1][1]) = 2
  /\ completions[1][1][1] # completions[1][1][2]
  /\ Len(responses) = 1
  /\ Len(responses[1].activities) = 2

\* C8: an instance run with valid arguments has made exactly one
\* GetFilteredActions call and sent at most one response, and has sent none
\* unless the store has run its continuation.
C8_OneQueryAtMostOneResponse ==
  \A c \in Calls :
    /\ fn_state[c] = "ran" => Cardinality(QueriesOf(c)) = 1
    /\ fn_state[c] # "ran" => Cardinality(QueriesOf(c)) = 0
    /\ Cardinality(ResponsesOf(c)) <= 1
    /\ Len(completions[c]) = 0 => ResponsesOf(c) = {}

C8_Witness ==
  \E c1, c2 \in Calls :
    /\ c1 # c2
    /\ fn_state[c1] = "ran" /\ c1 \in store_callbacks /\ ResponsesOf(c1) = {}
    /\ fn_state[c2] = "ran" /\ Cardinality(ResponsesOf(c2)) = 1

\* C17 as stated: the continuation holds only a weak reference, so an instance
\* the dispatcher has let go is destroyed even while its query is pending, and
\* a completion delivered after that builds no response.
C17_ContinuationIsWeak ==
  \A c \in Calls :
    /\ c \notin dispatcher_refs => fn_refs[c] = 0
    /\ c \in late_completions => ResponsesOf(c) = {}

\* C17 as amended: the continuation holds a reference of its own, so the
\* instance is alive for as long as its query is pending, whether or not the
\* dispatcher still holds it; a completion delivered after the dispatcher let
\* go runs as any other and sends the one response; the instance is destroyed
\* only when both the dispatcher and the continuation are gone.
C17_ContinuationKeepsInstanceAlive ==
  \A c \in Calls :
    /\ fn_refs[c] = (IF c \in dispatcher_refs THEN 1 ELSE 0) +
                    (IF c \in store_callbacks THEN 1 ELSE 0)
    /\ c \in store_callbacks => fn_refs[c] >= 1
    /\ c \in late_completions =>
         /\ Cardinality(ResponsesOf(c)) = 1
         /\ \A i \in ResponsesOf(c) :
              responses[i].activities = ConvertAll(completions[c][1])

\* A query completed, with Actions, after the dispatcher let the instance go.
C17_Witness ==
  \E c \in Calls :
    /\ c \in late_completions
    /\ fn_refs[c] = 0
    /\ completions[c] # <<>> /\ completions[c][1] # <<>>
    /\ ResponsesOf(c) # {}

\* C18: with several getExtensionActivities calls outstanding and completed in
\* any order, each completed call has one response of its own, holding exactly
\* the Actions delivered to its own continuation, and no call that has not
\* completed has a response.
C18_EachCallGetsItsOwnResult ==
  \A c \in Calls :
    IF completions[c] = <<>>
    THEN ResponsesOf(c) = {}
    ELSE /\ Len(completions[c]) = 1
         /\ Cardinality(ResponsesOf(c)) = 1
         /\ \A i \in ResponsesOf(c) :
              /\ Len(responses[i].activities) = Len(completions[c][1])
              /\ \A k \in 1 .. Len(completions[c][1]) :
                   responses[i].activities[k].activityId =
                     completions[c][1][k].action_id

\* Two calls outstanding at once, completed in the reverse of the order they
\* were made in, with different results.
C18_Witness ==
  /\ Len(store_queries) = 2 /\ Len(responses) = 2
  /\ store_queries[1].fn = 1 /\ store_queries[2].fn = 2
  /\ responses[1].fn = 2 /\ responses[2].fn = 1
  /\ completions[2][1] # <<>>
  /\ completions[1][1] = <<>>
  /\ responses[1].activities # <<>>
  /\ responses[2].activities = <<>>

-----------------------------------------------------------------------------
(* Properties of DeleteActivities (under SpecDelete). *)

\* What each string of IdStrings is as a base-10 signed 64-bit integer: <<>>
\* when it is none.
ExpectedInt64 ==
  (<<"1","0">> :> <<[negative |-> FALSE, magnitude |-> <<"1","0">>]>>) @@
  (<<"2","0">> :> <<[negative |-> FALSE, magnitude |-> <<"2","0">>]>>) @@
  (<<"n","o","t","-","a","-","n","u","m","b","e","r">> :> <<>>) @@
  (<<>> :> <<>>) @@
  (<<"-","7">> :> <<[negative |-> TRUE, magnitude |-> <<"7">>]>>) @@
  (<<"+","5">> :> <<[negative |-> FALSE, magnitude |-> <<"5">>]>>) @@
  (<<"0","0","7">> :> <<[negative |-> FALSE, magnitude |-> <<"7">>]>>) @@
  (<<" ","3">> :> <<>>) @@
  (<<"1","2","x">> :> <<>>) @@
  (Int64MaxDigits :> <<[negative |-> FALSE, magnitude |-> Int64MaxDigits]>>) @@
  (Int64MinDigits :> <<>>) @@
  ((<<"-">> \o Int64MinDigits) :> <<[negative |-> TRUE, magnitude |-> Int64MinDigits]>>)

\* C9: the list given to RemoveActions is the subsequence of the input entries
\* that parse as base-10 signed 64-bit integers, as integers, in their
\* original order; the others are omitted and the call still succeeds.
C9_RemoveActionsGetsParsedIds ==
  \A n \in 1 .. Len(remove_actions_calls) :
    LET ids == del_args[1]
        forwarded == remove_actions_calls[n]
        kept == {i \in 1 .. Len(ids) : ExpectedInt64[ids[i]] # <<>>}
        rank(i) == Cardinality({j \in kept : j <= i})
    IN /\ del_state = "ran"
       /\ Len(forwarded) = Cardinality(kept)
       /\ \A i \in kept : forwarded[rank(i)] = ExpectedInt64[ids[i]][1]

C9_Witness ==
  /\ del_state = "ran"
  /\ del_args = << << <<"1","0">>,
                     <<"n","o","t","-","a","-","n","u","m","b","e","r">>,
                     <<"2","0">> >> >>
  /\ remove_actions_calls =
       << << [negative |-> FALSE, magnitude |-> <<"1","0">>],
             [negative |-> FALSE, magnitude |-> <<"2","0">>] >> >>

\* C10: a deleteActivities call with schema-valid arguments makes exactly one
\* RemoveActions call, also when the id list is empty or no entry parses (the
\* store then gets an empty list).
C10_AlwaysOneRemoveActionsCall ==
  /\ del_state = "ran" => Len(remove_actions_calls) = 1
  /\ (del_state = "ran" /\ \A i \in 1 .. Len(del_args[1]) :
                             ExpectedInt64[del_args[1][i]] = <<>>)
       => remove_actions_calls = << <<>> >>
  /\ del_state # "ran" => remove_actions_calls = <<>>

C10_Witness ==
  /\ del_state = "ran"
  /\ Len(del_args[1]) = 2
  /\ remove_actions_calls = << <<>> >>

C10_WitnessEmptyList ==
  /\ del_state = "ran"
  /\ del_args = << <<>> >>
  /\ remove_actions_calls = << <<>> >>

-----------------------------------------------------------------------------
(* Properties of DeleteUrls (under SpecUrls). *)

\* What parsing each string must give, written out by hand: whether it is a URL
\* and, if so, its canonical spelling.
ExpectedUrl ==
  [s \in UrlStrings |->
     CASE s = "http://a.example/"  -> <<"http://a.example/">>
       [] s = "http://a.example"   -> <<"http://a.example/">>
       [] s = "HTTP://A.Example/x" -> <<"http://a.example/x">>
       [] s = ""                   -> <<>>
       [] s = "garbage"            -> <<>>]

\* C11: for every list of strings passed to deleteUrls, the list given to
\* RemoveURLs has the length of the input and its i-th element is the URL parsed
\* from the i-th string; empty and malformed strings stay in the list, as
\* invalid (structurally empty) URLs.
C11_RemoveURLsGetsEveryUrl ==
  (urls_state = "ran" /\ urls_args[1] # <<>>) =>
    /\ Len(remove_urls_calls) = 1
    /\ LET input == urls_args[1][1]
           gurls == remove_urls_calls[1]
       IN /\ Len(gurls) = Len(input)
          /\ \A i \in 1 .. Len(input) :
               IF ExpectedUrl[input[i]] = <<>>
               THEN ~gurls[i].is_valid /\ gurls[i].spec = ""
               ELSE gurls[i].is_valid /\ gurls[i].spec = ExpectedUrl[input[i]][1]

\* The spec's example: a URL, the empty string and a malformed string.
C11_Witness ==
  /\ urls_state = "ran"
  /\ urls_args = << << <<"http://a.example/", "", "garbage">> >> >>
  /\ remove_urls_calls =
       << <<[is_valid |-> TRUE, spec |-> "http://a.example/"],
            InvalidGURL, InvalidGURL>> >>

-----------------------------------------------------------------------------
(* Properties of DeleteDatabase (under SpecDatabase). *)

\* C12: every deleteDatabase request makes one DeleteDatabase call on the
\* ActivityLog, whatever the state; and the request is idempotent: made again
\* on the state a deleteDatabase left, it leaves the database and the events
\* sent to clients as they were.
C12_DeleteDatabaseForwardsAndIsIdempotent ==
  [][db_requests' = db_requests + 1 =>
       /\ delete_database_calls' = delete_database_calls + 1
       /\ store_db' = {}
       /\ broadcasts' = broadcasts
       /\ (delete_database_calls >= 1 /\ store_db = {} =>
             store_db' = store_db /\ broadcasts' = broadcasts /\
             reported' = reported)]_vars

\* Two requests made, the second on an already empty database, with events
\* broadcast around them.
C12_Witness ==
  /\ db_requests >= 2
  /\ delete_database_calls = db_requests
  /\ store_db = {}
  /\ broadcasts # <<>>

-----------------------------------------------------------------------------
(* Properties of argument validation (under SpecEndpoints). *)

\* C13: when the arguments of getExtensionActivities, deleteActivities or
\* deleteUrls do not match the schema, the request fails validation and the
\* endpoint does not run: no GetFilteredActions, RemoveActions or RemoveURLs
\* call is made for it, and no response is built for it.
C13_InvalidArgumentsReachNoStoreCall ==
  /\ \A c \in Calls :
       (fn_state[c] # "idle" /\ args_[c] = NoParams) =>
         /\ fn_state[c] = "bad_message"
         /\ QueriesOf(c) = {}
         /\ c \notin store_callbacks
         /\ ResponsesOf(c) = {}
  /\ (del_state # "idle" /\ del_args = <<>>) =>
       del_state = "bad_message" /\ remove_actions_calls = <<>>
  /\ (urls_state # "idle" /\ urls_args = <<>>) =>
       urls_state = "bad_message" /\ remove_urls_calls = <<>>

\* All three endpoints have been dispatched with arguments that fail validation.
C13_Witness ==
  /\ fn_state[1] = "bad_message"
  /\ del_state = "bad_message"
  /\ urls_state = "bad_message"
  /\ store_queries = <<>> /\ remove_actions_calls = <<>> /\ remove_urls_calls = <<>>

-----------------------------------------------------------------------------
(* Properties of NaClDomHandler (under SpecNaCl). *)

\* C20: nacl.returnNaClInfo is called only in a state where the page has
\* requested data, the plugin list has been received and the PNaCl path has
\* been validated, whatever the order of HandleRequestNaClInfo, OnGotPlugins
\* and DidValidatePnaclPath; the DCHECK in PopulatePageInformation never fails.
C20_ReplyOnlyAfterJoin ==
  [][/\ ~dcheck_failed'
     /\ nacl_replies' # nacl_replies =>
          /\ page_has_requested_data_'
          /\ has_plugin_info_'
          /\ pnacl_path_validated_'
          /\ nacl_replies'[Len(nacl_replies')].pnacl_path_exists =
               pnacl_path_exists_']_vars

\* A second page request arrived while the first validation was still due, and
\* the page has been answered, once per validation reply.
C20_Witness ==
  /\ nacl_requests >= 2
  /\ has_plugin_info_
  /\ pnacl_path_validated_
  /\ Len(nacl_replies) >= 2
  /\ nacl_replies[1].pnacl_path_exists # nacl_replies[2].pnacl_path_exists

\* C21: the replies sent never outnumber the requestNaClInfo messages received,
\* and every reply is sent by the step that delivers a validation reply
\* (DidValidatePnaclPath), never by the step that handles a request or the
\* plugin list.
C21_RepliesComeFromValidationReplies ==
  [][/\ Len(nacl_replies') <= nacl_requests'
     /\ nacl_replies' # nacl_replies =>
          /\ Len(nacl_replies') = Len(nacl_replies) + 1
          /\ Len(pending_validations') = Len(pending_validations) - 1
          /\ nacl_requests' = nacl_requests
          /\ plugin_callback_pending' = plugin_callback_pending]_vars

\* Every request made after the plugin list arrived has been answered, one
\* reply per request.
C21_Witness ==
  /\ nacl_requests >= 2
  /\ Len(nacl_replies) = nacl_requests
  /\ pending_validations = <<>>

\* Requests made before the plugin list arrived share one reply.
C21_WitnessFewerReplies ==
  /\ nacl_requests = MaxRequests
  /\ Len(nacl_replies) = 1
  /\ pending_validations = <<>>
  /\ ~plugin_callback_pending

\* C22 as stated: every reply reports the result of a validation posted after
\* the most recent request received before the reply.
C22_ReplyShowsValidationOfLatestRequest ==
  \A i \in 1 .. Len(nacl_replies) :
    nacl_replies[i].validation = nacl_replies[i].requests

\* C23 (under SpecNaClFair): every requestNaClInfo message is eventually
\* followed by a reply sent after it, whether it came before or after the
\* plugin list.
C23_EveryRequestIsAnswered ==
  \A k \in 1 .. MaxRequests :
    (nacl_requests >= k) ~>
      (\E i \in 1 .. Len(nacl_replies) : nacl_replies[i].requests >= k)

\* Two requests made before the plugin list arrived, answered by the one
\* validation posted when it did.
C23_Witness ==
  /\ nacl_requests = 2
  /\ Len(nacl_replies) = 1
  /\ nacl_replies[1].requests = 2
  /\ nacl_replies[1].validation = 2
  /\ pending_validations = <<>>

-----------------------------------------------------------------------------
(* Properties of the input method initializer (under SpecInputMethod). *)

\* C24: over any sequence of InitializeInputMethodForTesting and
\* ShutdownInputMethodForTesting calls, neither CHECK fails; the installed
\* factory is NULL or the module's own fake factory; at most one fake factory
\* is alive, and it is the one the module points to; and right after a
\* Shutdown call both the installed factory and the module's pointer are NULL.
C24_OneOwnedFakeFactory ==
  /\ ~check_failed
  /\ factory_instance \in {NULL, g_linux_input_method_context_factory}
  /\ Cardinality(fake_factories) <= 1
  /\ fake_factories = IF g_linux_input_method_context_factory = NULL THEN {}
                      ELSE {g_linux_input_method_context_factory}
  /\ (ime_calls # <<>> /\ ime_calls[Len(ime_calls)] = "Initialize") =>
       /\ factory_instance # NULL
       /\ factory_instance = g_linux_input_method_context_factory
  /\ (ime_calls # <<>> /\ ime_calls[Len(ime_calls)] = "Shutdown") =>
       /\ factory_instance = NULL
       /\ g_linux_input_method_context_factory = NULL
       /\ fake_factories = {}

\* Initialize twice (the second call reuses the factory), Shutdown, Initialize
\* again (a second factory is made).
C24_Witness ==
  /\ ime_calls = <<"Initialize", "Initialize", "Shutdown", "Initialize">>
  /\ factories_created = 2
  /\ factory_instance = 2
  /\ fake_factories = {2}

=============================================================================
